---- MODULE Spec2Model ----
(***************************************************************************)
(* Model of granulate_utils/containers/cri.py: the CRI client.             *)
(*                                                                         *)
(* The program is sequential; every gRPC round trip is one step of the     *)
(* model, and the daemons (the environment) may add or remove pods         *)
(* between any two round trips.                                            *)
(***************************************************************************)
EXTENDS Integers, Sequences, FiniteSets, TLC

\* ------------------------------------------------------------------ bounds
MaxPods == 2         \* pods on the host, all daemons together; ids are 1..MaxPods
MaxChanges == 1      \* pods the daemons add or remove during one call
MaxIfaces == 3       \* interfaces of a sandbox, where they are drawn freely

\* --------------------------------------------------------------- constants
RUNTIMES == <<"/run/containerd/containerd.sock", "/var/run/crio/crio.sock">>

Paths == 1..Len(RUNTIMES)
Ids == 1..MaxPods
Generations == <<"v1", "v1alpha2">>

NoPid == -1          \* Python None for an Optional[int]
NoTime == -1         \* Python None for an Optional[datetime]
NoId == 0

\* Status codes of a finished RPC.
TransportErrors == {"UNAVAILABLE", "DEADLINE_EXCEEDED"}
VersionErrors == {"UNIMPLEMENTED", "UNAVAILABLE", "PERMISSION_DENIED"}

LabelKeys == <<"io.kubernetes.container.name", "io.kubernetes.pod.name",
               "io.kubernetes.pod.namespace", "io.kubernetes.pod.uid">>
RestartCountKey == "io.kubernetes.container.restartCount"

\* ------------------------------------------------------- the daemons' data
\* What the daemon at path p reports for container i (the environment's
\* data; the variety is carried by the path and the id).
RuntimeNameOf(p) == <<"containerd", "cri-o">>[p]
SandboxOf(i) == 10 + i
\* Strings that the program inspects or builds are sequences of characters.
Digit(i) == <<"0", "1", "2", "3", "4", "5", "6", "7", "8", "9">>[(i % 10) + 1]
\* Container 2 of the first daemon is not managed by Kubernetes: it has no
\* pod uid label.
LabelKeysOf(p, i) ==
    {LabelKeys[j] : j \in 1..Len(LabelKeys)}
        \ (IF p = 1 /\ i = 2 THEN {LabelKeys[4]} ELSE {})
LabelsOf(p, i) ==
    [k \in LabelKeysOf(p, i) |->
        CASE k = LabelKeys[1] -> <<"c", Digit(i)>>
          [] k = LabelKeys[2] -> <<"p", Digit(i)>>
          [] k = LabelKeys[3] -> <<"n", "s">>
          [] OTHER -> <<"u", Digit(i)>>]
AnnotationsOf(i) == [k \in {RestartCountKey} |-> <<Digit(i)>>]
RunningOf(i) == i % 2 = 1
CreatedAtOf(i) == 1000 * i
\* Container 1 of the second daemon is running and its started_at is 0.
StartedAtOf(p, i) == IF i % 2 = 1 /\ ~(p = 2 /\ i = 1) THEN 2000 * i ELSE 0
PidOf(i) == CASE i % 3 = 1 -> 40 + i     \* a live process
              [] i % 3 = 2 -> 0          \* daemon reports pid 0
              [] OTHER -> 90 + i         \* a pid that no longer resolves
LivePids == {40 + i : i \in Ids}
InterfacesOf(i) ==
    IF i % 2 = 1
      THEN << [name |-> <<"e", "t", "h", "0">>, rx_bytes |-> 10 + i, rx_errors |-> 0,
               tx_bytes |-> 20 + i, tx_errors |-> 1],
              [name |-> <<"l", "o">>, rx_bytes |-> 5, rx_errors |-> 0,
               tx_bytes |-> 5, tx_errors |-> 0] >>
      ELSE << >>

\* api_pb2.Container: the summary record of ListContainers.
SummaryMsg(p, i) ==
    [type |-> "Container", id |-> i, pod_sandbox_id |-> SandboxOf(i),
     labels |-> LabelsOf(p, i), annotations |-> AnnotationsOf(i),
     running |-> RunningOf(i), created_at |-> CreatedAtOf(i),
     started_at |-> 0]

\* api_pb2.ContainerStatus: the record of ContainerStatus.
StatusMsg(p, i) ==
    [type |-> "ContainerStatus", id |-> i, pod_sandbox_id |-> 0,
     labels |-> LabelsOf(p, i), annotations |-> AnnotationsOf(i),
     running |-> RunningOf(i), created_at |-> CreatedAtOf(i),
     started_at |-> StartedAtOf(p, i)]

\* status_response.info: whether it has the "info" key, and whether the
\* JSON document under that key has a "pid" and which.
InfoOf(i, verbose) ==
    [has_info |-> verbose, has_pid |-> verbose, pid |-> IF verbose THEN PidOf(i) ELSE 0]
\* json.loads(status_response.info.get("info", "{}")).get("pid")
PidFromInfo(info) == IF info.has_info /\ info.has_pid THEN info.pid ELSE NoPid
\* The pid of the "info" JSON document: only a verbose response carries it.
InfoPid(i, verbose) == PidFromInfo(InfoOf(i, verbose))

\* --------------------------------------------------- the config feeder
\* node.external_id of get_node_info(), and the hash of a collected YARN
\* config (collection_result.yarn_config_hash)
NodeIds == {"node-1", "node-2"}
ConfigHashes == {"hash-a", "hash-b"}
NoNode == "no node"
NoConfig == "no config"
NoHash == "no hash"
NoCluster == "no cluster"
ClusterId == "cluster-1"
\* ConfigFeederClient.__init__: no cluster id, no hash remembered
NewFeeder == [_cluster_id |-> NoCluster, _last_hash |-> [n \in NodeIds |-> NoHash]]
\* ---- what the server, or the session, answers to a request
\* via: the response, or the exception of the session (ConnectionError,
\* or any other, such as ReadTimeout). ok: resp.ok. body: what resp.json()
\* finds in it:
\*   not_json          a text that is not JSON
\*   not_object        JSON that is not an object: null, a list, a string
\*   object            an object with neither "detail" nor "error"
\*   detail            an object with "detail"
\*   error_not_object  an object whose "error" is not an object
\*   error_incomplete  an object whose "error" lacks "code" or "message"
\*   error             an object whose "error" has both
\* code: the "code" of that error. accepted: the response class of the
\* caller takes the body for a response of its kind. yarn_config: the
\* response made of the body has a yarn_config.
SessionErrors == {"ConnectionError", "ReadTimeout"}
OkBodies == {"not_json", "not_object", "object"}
Bodies == OkBodies \cup {"detail", "error_not_object", "error_incomplete", "error"}
ErrorCodes == {"code-1", "code-2"}
NoCode == "no code"
Responses ==
    {r \in [via : {"response"} \cup SessionErrors, ok : BOOLEAN, body : Bodies,
            code : ErrorCodes \cup {NoCode}, accepted : BOOLEAN,
            yarn_config : BOOLEAN] :
        /\ r.via # "response" => ~r.ok /\ r.body = "not_json"
        /\ r.ok => r.body \in OkBodies
        /\ r.code # NoCode <=> r.body = "error"
        /\ r.accepted => r.via = "response" /\ r.body # "not_json"
        /\ r.yarn_config => r.accepted}

VARIABLES
    daemon,     \* daemon[p]: the ids of the containers of the daemon at path p
    pc,         \* where the program is
    clients,    \* CriClient._clients
    probed,     \* probed[p]: the generation whose Version RPC succeeded
    op,         \* the call in progress, or the last one
    rpcLog,     \* the RPCs the call issued, with their status
    calls,      \* what each _Client call made by the aggregator returned
    result,     \* how the last call ended
    frame,      \* the locals of the call in progress
    changes,    \* pods added or removed since the call in progress began
    feeder      \* the ConfigFeederClient: its _cluster_id and _last_hash

vars == <<daemon, pc, clients, probed, op, rpcLog, calls, result, frame, changes,
          feeder>>

\* ------------------------------------------------------------ pure helpers
NoTimeInfo == [present |-> FALSE, create_time |-> NoTime, start_time |-> NoTime]
NoError == [type |-> "none", code |-> "", id |-> NoId, key |-> ""]
RpcError(st) == [type |-> "RpcError", code |-> st, id |-> NoId, key |-> ""]
KeyErrorId(i) == [type |-> "KeyError", code |-> "", id |-> i, key |-> ""]
AttributeErrorNone == [type |-> "AttributeError", code |-> "", id |-> NoId, key |-> ""]
TypeErrorNone == [type |-> "TypeError", code |-> "", id |-> NoId, key |-> ""]
ContainerNotFound(i) == [type |-> "ContainerNotFound", code |-> "", id |-> i, key |-> ""]
CriNotAvailableError == [type |-> "CriNotAvailableError", code |-> "", id |-> NoId, key |-> ""]

Returned(v) == [kind |-> "return", value |-> v, error |-> NoError]
Raised(e) == [kind |-> "raise", value |-> <<>>, error |-> e]
Running == [kind |-> "none", value |-> <<>>, error |-> NoError]

\* The locals of a call. open is the stack of the channels that the `with
\* self.stub()` blocks in progress have opened, numbered within the call in
\* the order of their opening; opened is their count.
EmptyFrame ==
    [path |-> 0, gen |-> 0, ci |-> 0, pending |-> <<>>, containers |-> <<>>,
     agg |-> <<>>, cur |-> <<>>, sandbox_id |-> 0, opened |-> 0, open |-> <<>>]

\* `with self.stub() as stub`: grpc.insecure_channel(self.path) on entry
Open(fr) == [fr EXCEPT !.opened = @ + 1, !.open = Append(@, fr.opened + 1)]
\* the exit of the innermost `with self.stub()`
Close(fr) == [fr EXCEPT !.open = SubSeq(@, 1, Len(@) - 1)]
\* The channel of the stub in scope. 0 is the channel of _Client.__init__,
\* which it opens for its Version RPC and closes before it returns.
ProbeChannel == 0
StubChannel == IF frame.open = <<>> THEN ProbeChannel ELSE frame.open[Len(frame.open)]

Rpc(p, api, method, arg, st, resp) ==
    [path |-> p, api |-> api, method |-> method, arg |-> arg, status |-> st,
     resp |-> resp, chan |-> StubChannel]

RECURSIVE Join(_, _)
\* "_".join(parts)
Join(sep, parts) ==
    IF parts = <<>> THEN <<>>
    ELSE IF Len(parts) = 1 THEN parts[1]
    ELSE parts[1] \o sep \o Join(sep, Tail(parts))

\* container.labels[k] and container.annotations[k]: the subscript of a
\* protobuf map of strings gives the empty string for a key that is absent
MapValue(m, k) == IF k \in DOMAIN m THEN m[k] ELSE <<>>
\* ... and leaves the key in the map with that value
MapAfter(m, keys) == [k \in DOMAIN m \cup keys |-> MapValue(m, k)]
RequiredLabels == {LabelKeys[j] : j \in 1..Len(LabelKeys)}

\* _reconstruct_name that joins the namespace before the pod name
_reconstruct_name_NamespaceFirst(container) ==
    Join(<<"_">>,
         << <<"k", "8", "s">>,
            MapValue(container.labels, LabelKeys[1]),
            MapValue(container.labels, LabelKeys[3]),
            MapValue(container.labels, LabelKeys[2]),
            MapValue(container.labels, LabelKeys[4]),
            MapValue(container.annotations, RestartCountKey) >>)

\* _Client._reconstruct_name: the name
_reconstruct_name(container) ==
    Join(<<"_">>,
         << <<"k", "8", "s">>,
            MapValue(container.labels, LabelKeys[1]),
            MapValue(container.labels, LabelKeys[2]),
            MapValue(container.labels, LabelKeys[3]),
            MapValue(container.labels, LabelKeys[4]),
            MapValue(container.annotations, RestartCountKey) >>)

\* ---- the float arithmetic of datetime.fromtimestamp(ns / 1e9, tz=utc)
\* ns / 1e9 is a division of doubles, and fromtimestamp splits the double in
\* its whole seconds and its fraction, multiplies the fraction by 1e6 and
\* rounds the product half to even. A double keeps 53 significant bits and
\* every operation rounds half to even to that width. A binary number is
\* written here as its sequence of bits, the most significant first.
Mantissa == 53
Billion == 1000000000
Million == 1000000
\* bits of the whole seconds of a timestamp below 2^31 ns
SecondsBits == 2
\* bits worked out after the binary point: the quotient of a timestamp of
\* 1 ns or more starts within the first 30 and keeps 53
FractionBits == 90
\* bits of the whole microseconds of a fraction of a second
MicrosBits == 21

NatToBits(x, w) == [i \in 1..w |-> (x \div 2 ^ (w - i)) % 2]

RECURSIVE BitsToNat(_)
BitsToNat(b) ==
    IF b = <<>> THEN 0 ELSE 2 * BitsToNat(SubSeq(b, 1, Len(b) - 1)) + b[Len(b)]

RECURSIVE DivBits(_, _)
\* long division: the next k bits of r / 1e9 for r below 1e9, and the
\* remainder after them
DivBits(r, k) ==
    IF k = 1
      THEN LET bit == IF 2 * r >= Billion THEN 1 ELSE 0
           IN  [bits |-> <<bit>>, rem |-> 2 * r - bit * Billion]
      ELSE LET first == DivBits(r, k \div 2)
               then == DivBits(first.rem, k - k \div 2)
           IN  [bits |-> first.bits \o then.bits, rem |-> then.rem]

Reverse(s) == [i \in 1..Len(s) |-> s[Len(s) + 1 - i]]

RECURSIVE MulLow(_, _, _)
\* long multiplication from the least significant bit, which is the first
\* of b here: the bits of b times m plus carry that fit the length of b,
\* and the carry out of them
MulLow(b, m, carry) ==
    IF Len(b) = 1
      THEN [bits |-> <<(b[1] * m + carry) % 2>>, carry |-> (b[1] * m + carry) \div 2]
      ELSE LET low == MulLow(SubSeq(b, 1, Len(b) \div 2), m, carry)
               high == MulLow(SubSeq(b, Len(b) \div 2 + 1, Len(b)), m, low.carry)
           IN  [bits |-> low.bits \o high.bits, carry |-> high.carry]

\* b times m, MicrosBits bits longer than b
MulBits(b, m) ==
    LET product == MulLow(Reverse(b), m, 0)
    IN  NatToBits(product.carry, MicrosBits) \o Reverse(product.bits)

\* b plus one, for a b that is not all ones
Inc(b) ==
    LET z == CHOOSE i \in DOMAIN b : b[i] = 0 /\ \A j \in (i + 1)..Len(b) : b[j] = 1
    IN  [i \in DOMAIN b |-> IF i < z THEN b[i] ELSE IF i = z THEN 1 ELSE 0]

FirstOne(b) ==
    IF \E i \in DOMAIN b : b[i] = 1
      THEN CHOOSE i \in DOMAIN b : b[i] = 1 /\ \A j \in 1..(i - 1) : b[j] = 0
      ELSE 0

\* b, followed by more that is not zero when sticky, rounded half to even
\* to the significant bits of a double
RoundToDouble(b, sticky) ==
    LET n == FirstOne(b) + Mantissa - 1
    IN  IF FirstOne(b) = 0 \/ Len(b) <= n THEN b
        ELSE LET keep == SubSeq(b, 1, n)
                 rest == SubSeq(b, n + 1, Len(b))
                 more == sticky \/ \E i \in 2..Len(rest) : rest[i] = 1
                 up == rest[1] = 1 /\ (more \/ keep[n] = 1)
             IN  (IF up THEN Inc(keep) ELSE keep) \o [i \in 1..Len(rest) |-> 0]

\* datetime.fromtimestamp(ns / 1e9, tz=utc) in microseconds since the epoch,
\* for 0 <= ns < 2^31
FromTimestampNs(ns) ==
    LET quotient == DivBits(ns % Billion, FractionBits)
        \* ns / 1e9
        timestamp == RoundToDouble(NatToBits(ns \div Billion, SecondsBits) \o quotient.bits,
                                   quotient.rem # 0)
        \* modf
        intpart == BitsToNat(SubSeq(timestamp, 1, SecondsBits))
        floatpart == SubSeq(timestamp, SecondsBits + 1, Len(timestamp))
        \* floatpart * 1e6
        product == RoundToDouble(MulBits(floatpart, Million), FALSE)
        whole == BitsToNat(SubSeq(product, 1, MicrosBits))
        part == SubSeq(product, MicrosBits + 1, Len(product))
        \* round half to even
        up == part[1] = 1 /\ ((\E i \in 2..Len(part) : part[i] = 1) \/ whole % 2 = 1)
    IN  intpart * Million + whole + (IF up THEN 1 ELSE 0)

\* _create_container that keeps a handle without looking the process up
ProcessOf_NoLookup(pid) ==
    IF pid # NoPid /\ pid # 0 THEN pid ELSE NoPid

\* psutil.Process(pid) under suppress(NoSuchProcess)
ProcessOf(pid) ==
    IF pid # NoPid /\ pid # 0 /\ pid \in LivePids THEN pid ELSE NoPid

\* _create_container without the test of the 0 sentinel of started_at
TimeInfoOf_NoSentinel(container) ==
    IF container.type = "ContainerStatus"
      THEN [present |-> TRUE,
            create_time |-> FromTimestampNs(container.created_at),
            start_time |-> FromTimestampNs(container.started_at)]
      ELSE NoTimeInfo

\* _create_container without the isinstance test
TimeInfoOf_AnyMessage(container) ==
    [present |-> TRUE,
     create_time |-> FromTimestampNs(container.created_at),
     start_time |-> IF container.started_at # 0
                      THEN FromTimestampNs(container.started_at)
                      ELSE NoTime]

\* TimeInfo of _create_container: only a ContainerStatus message has one.
TimeInfoOf(container) ==
    IF container.type = "ContainerStatus"
      THEN [present |-> TRUE,
            create_time |-> FromTimestampNs(container.created_at),
            start_time |-> IF container.started_at # 0
                             THEN FromTimestampNs(container.started_at)
                             ELSE NoTime]
      ELSE NoTimeInfo

\* _create_container up to the evaluation of networks=self.get_networks(..):
\* the Container with its networks still to be fetched. labels is the map of
\* the message itself, which the subscripts of _reconstruct_name have filled
\* in.
_create_container(client, container, pid) ==
    [runtime |-> client.runtime_name,
     name |-> _reconstruct_name(container),
     id |-> container.id,
     labels |-> MapAfter(container.labels, RequiredLabels),
     running |-> container.running,
     process |-> ProcessOf(pid),
     time_info |-> TimeInfoOf(container),
     networks |-> <<>>]

StartsWith(s, prefix) ==
    /\ Len(s) >= Len(prefix)
    /\ SubSeq(s, 1, Len(prefix)) = prefix

\* Network(name=.., rx_bytes=.., ..) of get_networks
Network(net_interface) ==
    [name |-> net_interface.name,
     rx_bytes |-> net_interface.rx_bytes,
     rx_errors |-> net_interface.rx_errors,
     tx_bytes |-> net_interface.tx_bytes,
     tx_errors |-> net_interface.tx_errors]

RECURSIVE MapNetwork(_)
MapNetwork(ns) ==
    IF ns = <<>> THEN <<>> ELSE <<Network(Head(ns))>> \o MapNetwork(Tail(ns))

\* get_networks whose filter is `"eth" in name`
NetworksOf_EthAnywhere(net_interfaces) ==
    MapNetwork(SelectSeq(net_interfaces,
                         LAMBDA n : \E k \in 1..Len(n.name) :
                                       StartsWith(SubSeq(n.name, k, Len(n.name)),
                                                  <<"e", "t", "h">>)))

\* the list comprehension of get_networks
NetworksOf(net_interfaces) ==
    MapNetwork(SelectSeq(net_interfaces,
                         LAMBDA n : StartsWith(n.name, <<"e", "t", "h">>)))

\* _wrap_grpc_request that re-raises NOT_FOUND too
_wrap_grpc_request_RaisesNotFound(st) ==
    IF st = "OK" THEN "value" ELSE "raise"

\* _wrap_grpc_request that swallows every failed RPC
_wrap_grpc_request_SwallowsAll(st) ==
    IF st = "OK" THEN "value" ELSE "None"

\* _wrap_grpc_request: what becomes of an RPC that ended with status st
_wrap_grpc_request(st) ==
    IF st = "OK" THEN "value"
    ELSE IF st = "NOT_FOUND" THEN "None"
    ELSE "raise"

\* _try_cri_client that keeps the client whose Version RPC failed
_try_cri_client_KeepsFailed(p, gen, st) ==
    <<[path |-> p, api |-> gen, runtime_name |-> RuntimeNameOf(p)]>>

\* _try_cri_client: _Client.__init__ issues Version; any grpc.RpcError
\* gives None.
_try_cri_client(p, gen, st) ==
    IF st = "OK"
      THEN <<[path |-> p, api |-> gen, runtime_name |-> RuntimeNameOf(p)]>>
      ELSE <<>>

\* ---------------------------------------------------------------- the state
RECURSIVE SumLen(_, _)
SumLen(d, n) == IF n = 0 THEN 0 ELSE Len(d[n]) + SumLen(d, n - 1)
PodCount(d) == SumLen(d, Len(RUNTIMES))

Contents ==
    {s \in UNION {[1..n -> Ids] : n \in 0..MaxPods} :
        \A a, b \in DOMAIN s : a # b => s[a] # s[b]}

\* changed: the daemons changed in the course of the call before this one
ConstructCall ==
    [name |-> "construct", all_info |-> FALSE, id |-> NoId, client |-> 0,
     changed |-> FALSE]

\* Before CriClient(): nothing is held, the first path is about to be probed.
InitProbe ==
    /\ daemon = [p \in Paths |-> <<>>]
    /\ pc = "probe"
    /\ clients = <<>>
    /\ probed = [p \in Paths |-> "pending"]
    /\ op = ConstructCall
    /\ rpcLog = <<>>
    /\ calls = <<>>
    /\ result = Running
    /\ frame = [EmptyFrame EXCEPT !.path = 1, !.gen = 1]
    /\ changes = 0
    /\ feeder = NewFeeder

\* What CriClient() can hold when it returns: a client for every path of a
\* non-empty set of paths, in the order of RUNTIMES, each of either generation.
Held ==
    {c \in UNION {[1..n -> [path : Paths, api : {Generations[g] : g \in 1..Len(Generations)},
                            runtime_name : {RuntimeNameOf(p) : p \in Paths}]] :
                    n \in 1..Len(RUNTIMES)} :
        /\ \A j \in DOMAIN c : c[j].runtime_name = RuntimeNameOf(c[j].path)
        /\ \A j, k \in DOMAIN c : j < k => c[j].path < c[k].path}

\* After CriClient() returned. Only the daemons it holds a client for are
\* ever queried: the pods of the others are not tracked.
Init ==
    /\ clients \in Held
    /\ daemon \in {d \in [Paths -> Contents] :
                     /\ PodCount(d) <= MaxPods
                     /\ \A p \in Paths :
                          (\A j \in DOMAIN clients : clients[j].path # p) => d[p] = <<>>}
    /\ pc = "idle"
    /\ probed = [p \in Paths |->
                   IF \E j \in DOMAIN clients : clients[j].path = p
                     THEN (CHOOSE c \in {clients[j] : j \in DOMAIN clients} : c.path = p).api
                     ELSE "none"]
    /\ op = ConstructCall
    /\ rpcLog = <<>>
    /\ calls = <<>>
    /\ result = Returned(<<>>)
    /\ frame = EmptyFrame
    /\ changes = 0
    /\ feeder = NewFeeder

\* ------------------------------------------------------------ construction
\* CriClient.__init__: one Version round trip of _get_client(path).
Probe ==
    /\ pc = "probe"
    /\ \E st \in {"OK"} \cup VersionErrors :
        LET p == frame.path
            gen == Generations[frame.gen]
            cl == _try_cri_client(p, gen, st)
            \* `a or b`: the older generation is tried when the newer gave None
            fallback == cl = <<>> /\ frame.gen < Len(Generations)
            held == clients \o cl
        IN  /\ rpcLog' = Append(rpcLog, Rpc(p, gen, "Version", 0, st, <<>>))
            /\ IF fallback
                 THEN /\ frame' = [frame EXCEPT !.gen = frame.gen + 1]
                      /\ UNCHANGED <<pc, clients, probed, result>>
                 ELSE /\ clients' = held
                      /\ probed' = [probed EXCEPT ![p] = IF st = "OK" THEN gen ELSE "none"]
                      /\ IF p < Len(RUNTIMES)
                           THEN /\ frame' = [frame EXCEPT !.path = p + 1, !.gen = 1]
                                /\ UNCHANGED <<pc, result>>
                           ELSE /\ frame' = EmptyFrame
                                /\ IF held = <<>>
                                     THEN /\ pc' = "failed"
                                          /\ result' = Raised(CriNotAvailableError)
                                     ELSE /\ pc' = "idle"
                                          /\ result' = Returned(<<>>)
    /\ UNCHANGED <<daemon, op, calls, changes, feeder>>

\* CriClient.get_runtimes
GetRuntimes ==
    /\ pc = "idle"
    /\ op' = [name |-> "get_runtimes", all_info |-> FALSE, id |-> NoId, client |-> 0,
              changed |-> FALSE]
    /\ rpcLog' = <<>>
    /\ calls' = <<>>
    /\ result' = Returned([i \in 1..Len(clients) |-> clients[i].runtime_name])
    /\ UNCHANGED <<daemon, pc, clients, probed, frame, changes, feeder>>

\* ------------------------------------------------------------- the daemons
\* the client that the call in progress is querying
Cl == clients[frame.ci]

HasContainer(p, i) == \E j \in DOMAIN daemon[p] : daemon[p][j] = i
HasSandbox(p, sb) == \E j \in DOMAIN daemon[p] : SandboxOf(daemon[p][j]) = sb
InterfacesOfSandbox(sb) == InterfacesOf(sb - 10)

\* The daemons change concurrently with the program. A change commutes with
\* every round trip to another daemon, and the program sees a daemon only
\* through its round trips: it is enough to let the daemon about to be queried
\* change.
Queried(p) == pc \in {"rpc_list", "rpc_status", "rpc_maplist", "rpc_stats"} /\ Cl.path = p

\* A pod (a container and its sandbox) appears on a daemon.
AddPod ==
    /\ \E p \in Paths, i \in Ids :
        /\ changes < MaxChanges
        /\ Queried(p)
        /\ PodCount(daemon) < MaxPods
        /\ ~HasContainer(p, i)
        /\ daemon' = [daemon EXCEPT ![p] = Append(@, i)]
        /\ changes' = changes + 1
    /\ UNCHANGED <<pc, clients, probed, op, rpcLog, calls, result, frame, feeder>>

\* A pod disappears from a daemon.
RemovePod ==
    /\ \E p \in Paths, i \in Ids :
        /\ changes < MaxChanges
        /\ Queried(p)
        /\ HasContainer(p, i)
        /\ daemon' = [daemon EXCEPT ![p] = SelectSeq(@, LAMBDA x : x # i)]
        /\ changes' = changes + 1
    /\ UNCHANGED <<pc, clients, probed, op, rpcLog, calls, result, frame, feeder>>

\* ------------------------------------------------------------ control flow
Done(res, cs) == [pc |-> "idle", frame |-> EmptyFrame, calls |-> cs, result |-> res]
Goto(l, fr, cs) == [pc |-> l, frame |-> fr, calls |-> cs, result |-> Running]

Take(n) ==
    /\ pc' = n.pc
    /\ frame' = n.frame
    /\ calls' = n.calls
    /\ result' = n.result

ClientReturn(ci, none, ret) == [client |-> ci, none |-> none, ret |-> ret]

\* _create_container whose get_networks uses the stub of its caller
Create_SharesStub(fr, container, pid) ==
    Goto("rpc_maplist",
         [fr EXCEPT !.cur = _create_container(clients[fr.ci], container, pid),
                    !.open = Append(@, StubChannel)],
         calls)

\* _create_container(container, pid), up to its call of get_networks, which
\* opens a channel of its own
Create(fr, container, pid) ==
    Goto("rpc_maplist",
         Open([fr EXCEPT !.cur = _create_container(clients[fr.ci], container, pid)]),
         calls)

\* CriClient.list_containers that drops the ids it already holds
ClientListReturns_Dedup(fr) ==
    LET cs == Append(calls, ClientReturn(fr.ci, FALSE, fr.containers))
        agg == fr.agg \o SelectSeq(fr.containers,
                                   LAMBDA c : \A j \in DOMAIN fr.agg : fr.agg[j].id # c.id)
    IN  IF fr.ci < Len(clients)
          THEN Goto("rpc_list",
                    Open([EmptyFrame EXCEPT !.ci = fr.ci + 1, !.agg = agg,
                                            !.opened = fr.opened]),
                    cs)
          ELSE Done(Returned(agg), cs)

\* CriClient.list_containers: `containers += client.list_containers(..)`,
\* then the next client or the return.
ClientListReturns(fr) ==
    LET cs == Append(calls, ClientReturn(fr.ci, FALSE, fr.containers))
        agg == fr.agg \o fr.containers
    IN  IF fr.ci < Len(clients)
          THEN Goto("rpc_list",
                    Open([EmptyFrame EXCEPT !.ci = fr.ci + 1, !.agg = agg,
                                            !.opened = fr.opened]),
                    cs)
          ELSE Done(Returned(agg), cs)

\* _Client.list_containers that fetches no detail
ListLoop_NeverVerbose(fr) ==
    IF fr.pending = <<>> THEN ClientListReturns(fr)
    ELSE Create(fr, Head(fr.pending), NoPid)

\* _Client.list_containers: the head of its for loop.
ListLoop(fr) ==
    IF fr.pending = <<>> THEN ClientListReturns(fr)
    ELSE IF op.all_info THEN Goto("rpc_status", fr, calls)
    ELSE Create(fr, Head(fr.pending), NoPid)

\* CriClient.get_container that gives up at the first client reporting absent
ClientGetReturns_FirstOnly(fr, none, container) ==
    LET cs == Append(calls, ClientReturn(fr.ci, none, container))
    IN  IF ~none THEN Done(Returned(container), cs)
        ELSE Done(Raised(ContainerNotFound(op.id)), cs)

\* CriClient.get_container: one client's answer, then the next client, the
\* return or ContainerNotFound.
ClientGetReturns(fr, none, container) ==
    LET cs == Append(calls, ClientReturn(fr.ci, none, container))
    IN  IF ~none THEN Done(Returned(container), cs)
        ELSE IF fr.ci < Len(clients)
          THEN Goto("rpc_status",
                    Open([EmptyFrame EXCEPT !.ci = fr.ci + 1, !.opened = fr.opened]),
                    cs)
          ELSE Done(Raised(ContainerNotFound(op.id)), cs)

\* ------------------------------------------------------------------- calls
\* a call that answers a repeated request from the previous result
NewCall_ReturnsCached(name, all_info, id, client, first) ==
    /\ pc = "idle"
    /\ op' = [name |-> name, all_info |-> all_info, id |-> id, client |-> client,
              changed |-> changes > 0]
    /\ rpcLog' = <<>>
    /\ calls' = <<>>
    /\ changes' = 0
    /\ IF op.name = name /\ op.all_info = all_info /\ op.id = id /\ op.client = client
          /\ result.kind = "return"
         THEN /\ result' = result
              /\ frame' = EmptyFrame
              /\ pc' = "idle"
         ELSE /\ result' = Running
              /\ frame' = Open([EmptyFrame EXCEPT !.ci = IF client = 0 THEN 1 ELSE client])
              /\ pc' = first
    /\ UNCHANGED <<daemon, clients, probed, feeder>>

NewCall(name, all_info, id, client, first) ==
    /\ pc = "idle"
    /\ op' = [name |-> name, all_info |-> all_info, id |-> id, client |-> client,
              changed |-> changes > 0]
    /\ rpcLog' = <<>>
    /\ calls' = <<>>
    /\ result' = Running
    /\ frame' = Open([EmptyFrame EXCEPT !.ci = IF client = 0 THEN 1 ELSE client])
    /\ pc' = first
    /\ changes' = 0
    /\ UNCHANGED <<daemon, clients, probed, feeder>>

\* CriClient.list_containers(all_info)
CallListContainers ==
    \E all_info \in BOOLEAN :
        NewCall("list_containers", all_info, NoId, 0, "rpc_list")

\* CriClient.get_container(container_id, all_info)
CallGetContainer ==
    \E i \in Ids, all_info \in BOOLEAN :
        NewCall("get_container", all_info, i, 0, "rpc_status")

\* _Client.get_networks(container_id) on one of the held clients
CallGetNetworks ==
    \E i \in Ids, c \in 1..Len(clients) :
        NewCall("get_networks", FALSE, i, c, "rpc_maplist")

\* ------------------------------------------------------------- round trips
\* list_containers that takes a client whose ListContainers failed for empty
RpcListContainers_SkipsFailed ==
    /\ pc = "rpc_list"
    /\ \E st \in {"OK"} \cup TransportErrors :
        LET ids == IF st = "OK" THEN daemon[Cl.path] ELSE <<>>
            msgs == [j \in 1..Len(ids) |-> SummaryMsg(Cl.path, ids[j])]
        IN  /\ rpcLog' = Append(rpcLog, Rpc(Cl.path, Cl.api, "ListContainers", 0, st, ids))
            /\ Take(ListLoop([frame EXCEPT !.pending = msgs, !.containers = <<>>]))
    /\ UNCHANGED <<daemon, clients, probed, op, changes, feeder>>

\* list_containers that drops a client whose daemon does not answer
RpcListContainers_DropsUnreachable ==
    /\ pc = "rpc_list"
    /\ \E st \in {"OK"} \cup TransportErrors :
        LET ids == IF st = "OK" THEN daemon[Cl.path] ELSE <<>>
            msgs == [j \in 1..Len(ids) |-> SummaryMsg(Cl.path, ids[j])]
        IN  /\ rpcLog' = Append(rpcLog, Rpc(Cl.path, Cl.api, "ListContainers", 0, st, ids))
            /\ Take(IF st = "OK"
                      THEN ListLoop([frame EXCEPT !.pending = msgs, !.containers = <<>>])
                      ELSE Done(Raised(RpcError(st)), calls))
            /\ clients' = IF st # "OK" /\ Len(clients) > 1
                            THEN SelectSeq(clients, LAMBDA c : c.path # Cl.path)
                            ELSE clients
    /\ UNCHANGED <<daemon, probed, op, changes, feeder>>

\* stub.ListContainers of _Client.list_containers (not wrapped)
RpcListContainers ==
    /\ pc = "rpc_list"
    /\ \E st \in {"OK"} \cup TransportErrors :
        LET ids == IF st = "OK" THEN daemon[Cl.path] ELSE <<>>
            msgs == [j \in 1..Len(ids) |-> SummaryMsg(Cl.path, ids[j])]
        IN  /\ rpcLog' = Append(rpcLog, Rpc(Cl.path, Cl.api, "ListContainers", 0, st, ids))
            /\ Take(IF st = "OK"
                      THEN ListLoop([frame EXCEPT !.pending = msgs, !.containers = <<>>])
                      ELSE Done(Raised(RpcError(st)), calls))
    /\ UNCHANGED <<daemon, clients, probed, op, changes, feeder>>

\* stub.ContainerStatus of _get_container, under _wrap_grpc_request
RpcContainerStatus ==
    /\ pc = "rpc_status"
    /\ LET i == IF op.name = "list_containers" THEN Head(frame.pending).id ELSE op.id
           verbose == IF op.name = "list_containers" THEN TRUE ELSE op.all_info
       IN  \E st \in (IF HasContainer(Cl.path, i) THEN {"OK"} ELSE {"NOT_FOUND"})
                        \cup TransportErrors :
            LET w == _wrap_grpc_request(st)
            IN  /\ rpcLog' = Append(rpcLog, Rpc(Cl.path, Cl.api, "ContainerStatus", i, st, <<>>))
                /\ Take(CASE w = "raise" -> Done(Raised(RpcError(st)), calls)
                          [] w = "None" ->
                               IF op.name = "list_containers"
                                 THEN ListLoop([frame EXCEPT !.pending = Tail(@)])
                                 ELSE ClientGetReturns(frame, TRUE, <<>>)
                          [] OTHER -> Create(frame, StatusMsg(Cl.path, i), InfoPid(i, verbose)))
    /\ UNCHANGED <<daemon, clients, probed, op, changes, feeder>>

\* the container whose networks get_networks is fetching
NetId == IF op.name = "get_networks" THEN op.id ELSE frame.cur.id

\* get_networks that asks for the sandbox of the first listed container
RpcMapList_FirstSandbox ==
    /\ pc = "rpc_maplist"
    /\ \E st \in {"OK"} \cup TransportErrors :
        LET ids == IF st = "OK" THEN daemon[Cl.path] ELSE <<>>
            w == _wrap_grpc_request(st)
            mapped == \E j \in DOMAIN ids : ids[j] = NetId
        IN  /\ rpcLog' = Append(rpcLog, Rpc(Cl.path, Cl.api, "ListContainers", 0, st, ids))
            /\ Take(CASE w = "raise" -> Done(Raised(RpcError(st)), calls)
                      [] w = "None" -> Done(Raised(AttributeErrorNone), calls)
                      [] OTHER ->
                           IF mapped
                             THEN Goto("rpc_stats",
                                       [frame EXCEPT !.sandbox_id = SummaryMsg(Cl.path, ids[1]).pod_sandbox_id],
                                       calls)
                             ELSE Done(Raised(KeyErrorId(NetId)), calls))
    /\ UNCHANGED <<daemon, clients, probed, op, changes, feeder>>

\* get_networks that maps containers to sandboxes with ListPodSandbox
RpcMapList_ListsSandboxes ==
    /\ pc = "rpc_maplist"
    /\ \E st \in {"OK"} \cup TransportErrors :
        LET ids == IF st = "OK" THEN daemon[Cl.path] ELSE <<>>
            w == _wrap_grpc_request(st)
            mapped == \E j \in DOMAIN ids : ids[j] = NetId
        IN  /\ rpcLog' = Append(rpcLog, Rpc(Cl.path, Cl.api, "ListPodSandbox", 0, st, ids))
            /\ Take(CASE w = "raise" -> Done(Raised(RpcError(st)), calls)
                      [] w = "None" -> Done(Raised(AttributeErrorNone), calls)
                      [] OTHER ->
                           IF mapped
                             THEN Goto("rpc_stats",
                                       [frame EXCEPT !.sandbox_id = SummaryMsg(Cl.path, NetId).pod_sandbox_id],
                                       calls)
                             ELSE Done(Raised(KeyErrorId(NetId)), calls))
    /\ UNCHANGED <<daemon, clients, probed, op, changes, feeder>>

\* stub.ListContainers of _container_sandbox_mapping, and the lookup
\* [container_id] of get_networks
RpcMapList ==
    /\ pc = "rpc_maplist"
    /\ \E st \in {"OK"} \cup TransportErrors :
        LET ids == IF st = "OK" THEN daemon[Cl.path] ELSE <<>>
            w == _wrap_grpc_request(st)
            mapped == \E j \in DOMAIN ids : ids[j] = NetId
        IN  /\ rpcLog' = Append(rpcLog, Rpc(Cl.path, Cl.api, "ListContainers", 0, st, ids))
            /\ Take(CASE w = "raise" -> Done(Raised(RpcError(st)), calls)
                      [] w = "None" -> Done(Raised(AttributeErrorNone), calls)
                      [] OTHER ->
                           IF mapped
                             THEN Goto("rpc_stats",
                                       [frame EXCEPT !.sandbox_id = SummaryMsg(Cl.path, NetId).pod_sandbox_id],
                                       calls)
                             ELSE Done(Raised(KeyErrorId(NetId)), calls))
    /\ UNCHANGED <<daemon, clients, probed, op, changes, feeder>>

\* stub.PodSandboxStats of _get_networks, the rest of get_networks and of
\* the _create_container that called it
RpcPodSandboxStats ==
    /\ pc = "rpc_stats"
    /\ LET sb == frame.sandbox_id
       IN  \E st \in (IF HasSandbox(Cl.path, sb) THEN {"OK"} ELSE {"NOT_FOUND"})
                        \cup TransportErrors :
            LET w == _wrap_grpc_request(st)
                networks == NetworksOf(InterfacesOfSandbox(sb))
                container == [frame.cur EXCEPT !.networks = networks]
            IN  /\ rpcLog' = Append(rpcLog, Rpc(Cl.path, Cl.api, "PodSandboxStats", sb, st, <<>>))
                /\ Take(CASE w = "raise" -> Done(Raised(RpcError(st)), calls)
                          [] w = "None" -> Done(Raised(TypeErrorNone), calls)
                          [] op.name = "get_networks" -> Done(Returned(networks), calls)
                          [] op.name = "list_containers" ->
                               ListLoop(Close([frame EXCEPT
                                                 !.containers = Append(@, container),
                                                 !.pending = Tail(@),
                                                 !.cur = <<>>,
                                                 !.sandbox_id = 0]))
                          [] OTHER -> ClientGetReturns(Close(frame), FALSE, container))
    /\ UNCHANGED <<daemon, clients, probed, op, changes, feeder>>

NextProbe ==
    \/ Probe
    \/ GetRuntimes

SpecProbe == InitProbe /\ [][NextProbe]_vars

Next ==
    \/ GetRuntimes
    \/ CallListContainers
    \/ CallGetContainer
    \/ CallGetNetworks
    \/ RpcListContainers
    \/ RpcContainerStatus
    \/ RpcMapList
    \/ RpcPodSandboxStats
    \/ AddPod
    \/ RemovePod

Spec == Init /\ [][Next]_vars

\* Construction and the calls that follow it, against daemons that hold
\* their pods from the start.
InitAll ==
    /\ daemon \in {d \in [Paths -> Contents] : PodCount(d) <= MaxPods}
    /\ pc = "probe"
    /\ clients = <<>>
    /\ probed = [p \in Paths |-> "pending"]
    /\ op = ConstructCall
    /\ rpcLog = <<>>
    /\ calls = <<>>
    /\ result = Running
    /\ frame = [EmptyFrame EXCEPT !.path = 1, !.gen = 1]
    /\ changes = 0
    /\ feeder = NewFeeder

NextAll ==
    \/ Probe
    \/ GetRuntimes
    \/ CallListContainers
    \/ CallGetContainer
    \/ CallGetNetworks
    \/ RpcListContainers
    \/ RpcContainerStatus
    \/ RpcMapList
    \/ RpcPodSandboxStats
    \/ AddPod
    \/ RemovePod

SpecAll == InitAll /\ [][NextAll]_vars

\* ------------------------------------------------------- daemons that hang
\* Every stub method is called with the request alone: no timeout argument,
\* so the RPC has no deadline.
HasDeadline == FALSE

RpcStates == {"probe", "rpc_list", "rpc_status", "rpc_maplist", "rpc_stats"}
MethodAt(l) ==
    CASE l = "probe" -> "Version"
      [] l \in {"rpc_list", "rpc_maplist"} -> "ListContainers"
      [] l = "rpc_status" -> "ContainerStatus"
      [] OTHER -> "PodSandboxStats"

\* the argument of the request at l: the container id of ContainerStatus,
\* the sandbox id of PodSandboxStats; ListContainers has no filter
ArgAt(l) ==
    CASE l = "rpc_status" ->
             IF op.name = "list_containers" THEN Head(frame.pending).id ELSE op.id
      [] l = "rpc_stats" -> frame.sandbox_id
      [] OTHER -> 0

\* The daemon accepted the connection and never answers the RPC: without a
\* deadline the stub call does not return, and the channel of its with
\* block stays open.
RpcNeverAnswered ==
    /\ pc \in RpcStates
    /\ ~HasDeadline
    /\ rpcLog' = Append(rpcLog,
                        IF pc = "probe"
                          THEN Rpc(frame.path, Generations[frame.gen], "Version", 0,
                                   "PENDING", <<>>)
                          ELSE Rpc(Cl.path, Cl.api, MethodAt(pc), ArgAt(pc), "PENDING", <<>>))
    /\ frame' = IF pc = "probe" THEN [frame EXCEPT !.open = <<ProbeChannel>>] ELSE frame
    /\ pc' = "blocked"
    /\ UNCHANGED <<daemon, clients, probed, op, calls, result, changes, feeder>>

\* the steps of the program inside a call: each is taken once its RPC is
\* answered
ProgramSteps ==
    \/ Probe
    \/ RpcListContainers
    \/ RpcContainerStatus
    \/ RpcMapList
    \/ RpcPodSandboxStats

NextLive ==
    \/ NextAll
    \/ RpcNeverAnswered

\* A daemon answers or hangs; a call in progress goes on as soon as its RPC
\* is answered.
SpecLive == InitAll /\ [][NextLive]_vars /\ WF_vars(ProgramSteps)

\* ------------------------------------------------- ConfigFeederClient
\* _get_yarn_config_if_changed: whether there is a YARN config to send
_get_yarn_config_if_changed(f, node, yarn_config_hash) ==
    /\ yarn_config_hash # NoConfig
    /\ f._last_hash[node] # yarn_config_hash

HttpError(e) == [type |-> e, code |-> "", id |-> NoId, key |-> ""]

\* granulate_utils.config_feeder.core.errors.raise_for_code: whether it
\* raises for the code of an error. It raises for every code: an answer
\* that is not ok is a failure of the request.
raise_for_code(code) == code \in ErrorCodes

\* _api_request: what the request gives for the answer resp, either the
\* exception that leaves it or the body it returns
_api_request(resp) ==
    IF resp.via = "ConnectionError" THEN "ClientError"
    ELSE IF resp.via # "response" THEN resp.via
    ELSE IF resp.ok
      THEN IF resp.body = "not_json" THEN "JSONDecodeError" ELSE "return"
    ELSE IF resp.body \in {"not_json", "detail", "object", "error_incomplete"}
      THEN "APIError"
    ELSE IF resp.body \in {"not_object", "error_not_object"} THEN "TypeError"
    ELSE IF raise_for_code(resp.code) THEN "CodedError"
    ELSE "return"

\* CreateClusterResponse.parse_obj(res).cluster.id: the class takes the
\* body, which need not be an object, and gives the cluster, or raises
\* ValidationError
ClusterOf(resp) == IF resp.accepted THEN "ok" ELSE "ValidationError"
\* CreateNodeResponse(**res).node.id, CreateNodeConfigsResponse(**res): a
\* body that is no mapping cannot be unpacked; of a mapping the class makes
\* the response, or raises ValidationError
ResponseOf(resp) ==
    IF resp.body = "not_object" THEN "TypeError"
    ELSE IF resp.accepted THEN "ok"
    ELSE "ValidationError"

Request(path, resp, outcome) ==
    [method |-> "POST", path |-> path, response |-> resp, outcome |-> outcome]

InitFeeder ==
    /\ daemon = [p \in Paths |-> <<>>]
    /\ pc = "idle"
    /\ clients = <<>>
    /\ probed = [p \in Paths |-> "none"]
    /\ op = [name |-> "__init__", node |-> NoNode, yarn_config_hash |-> NoConfig,
             before |-> NewFeeder._last_hash]
    /\ rpcLog = <<>>
    /\ calls = <<>>
    /\ result = Returned(<<>>)
    /\ frame = EmptyFrame
    /\ changes = 0
    /\ feeder = NewFeeder

\* ConfigFeederClient.collect(), up to its first request: the node of
\* get_node_info() and the collected YARN config are the inputs. before is
\* _last_hash as collect() found it.
Collect ==
    /\ pc = "idle"
    /\ \E node \in NodeIds \cup {NoNode}, yarn \in ConfigHashes \cup {NoConfig} :
        /\ op' = [name |-> "collect", node |-> node, yarn_config_hash |-> yarn,
                  before |-> feeder._last_hash]
        /\ IF node = NoNode \/ yarn = NoConfig
                \/ ~_get_yarn_config_if_changed(feeder, node, yarn)
             THEN /\ pc' = "idle"
                  /\ result' = Returned(<<>>)
             ELSE /\ pc' = IF feeder._cluster_id = NoCluster
                             THEN "post_cluster" ELSE "post_node"
                  /\ result' = Running
    /\ rpcLog' = <<>>
    /\ UNCHANGED <<daemon, clients, probed, calls, frame, changes, feeder>>

\* one request of collect(): what it gives, counting the reading of the
\* returned body by the caller
Outcome(resp, read) == IF _api_request(resp) = "return" THEN read ELSE _api_request(resp)

\* _register_cluster: POST /clusters
PostCluster ==
    /\ pc = "post_cluster"
    /\ \E resp \in Responses :
        LET outcome == Outcome(resp, ClusterOf(resp))
        IN  /\ rpcLog' = Append(rpcLog, Request("/clusters", resp, outcome))
            /\ IF outcome = "ok"
                 THEN /\ feeder' = [feeder EXCEPT !._cluster_id = ClusterId]
                      /\ pc' = "post_node"
                      /\ UNCHANGED result
                 ELSE /\ pc' = "idle"
                      /\ result' = Raised(HttpError(outcome))
                      /\ UNCHANGED feeder
    /\ UNCHANGED <<daemon, clients, probed, op, calls, frame, changes>>

\* _register_node: POST /clusters/{cluster_id}/nodes
PostNode ==
    /\ pc = "post_node"
    /\ \E resp \in Responses :
        LET outcome == Outcome(resp, ResponseOf(resp))
        IN  /\ rpcLog' = Append(rpcLog, Request("/clusters/{cluster_id}/nodes", resp, outcome))
            /\ IF outcome = "ok"
                 THEN /\ pc' = "post_configs"
                      /\ UNCHANGED result
                 ELSE /\ pc' = "idle"
                      /\ result' = Raised(HttpError(outcome))
    /\ UNCHANGED <<daemon, clients, probed, op, calls, frame, changes, feeder>>

\* _submit_node_configs that remembers the hash whatever the configs POST gave
PostConfigs_RemembersAlways ==
    /\ pc = "post_configs"
    /\ \E resp \in Responses :
        LET outcome == Outcome(resp, ResponseOf(resp))
        IN  /\ rpcLog' = Append(rpcLog, Request("/nodes/{node_id}/configs", resp, outcome))
            /\ pc' = "idle"
            /\ result' = IF outcome = "ok" THEN Returned(<<>>) ELSE Raised(HttpError(outcome))
            /\ feeder' = [feeder EXCEPT !._last_hash[op.node] = op.yarn_config_hash]
    /\ UNCHANGED <<daemon, clients, probed, op, calls, frame, changes>>

\* _submit_node_configs: POST /nodes/{node_id}/configs, then the hash is
\* remembered when the response has a yarn_config.
PostConfigs ==
    /\ pc = "post_configs"
    /\ \E resp \in Responses :
        LET outcome == Outcome(resp, ResponseOf(resp))
        IN  /\ rpcLog' = Append(rpcLog, Request("/nodes/{node_id}/configs", resp, outcome))
            /\ pc' = "idle"
            /\ result' = IF outcome = "ok" THEN Returned(<<>>) ELSE Raised(HttpError(outcome))
            /\ feeder' = IF outcome = "ok" /\ resp.yarn_config
                           THEN [feeder EXCEPT !._last_hash[op.node] = op.yarn_config_hash]
                           ELSE feeder
    /\ UNCHANGED <<daemon, clients, probed, op, calls, frame, changes>>

NextFeeder ==
    \/ Collect
    \/ PostCluster
    \/ PostNode
    \/ PostConfigs

SpecFeeder == InitFeeder /\ [][NextFeeder]_vars

\* ------------------------------------------- the translations on their own
\* The pure parts of the translation, applied to inputs drawn freely: the
\* message is in frame.cur and the outcome in result.
ExtraLabel == "app"
LabelValues(k) ==
    CASE k = LabelKeys[1] -> {<<"a">>, <<"a", "_", "b">>}
      [] k = LabelKeys[2] -> {<<"p">>, <<"q">>}
      [] k = LabelKeys[3] -> {<<"n", "s">>, <<"k">>}
      [] k = LabelKeys[4] -> {<<"u">>, <<"7">>}
      [] OTHER -> {<<"x">>}
AllLabelKeys == {LabelKeys[j] : j \in 1..Len(LabelKeys)} \cup {ExtraLabel}
LabelMaps ==
    UNION {{f \in [D -> UNION {LabelValues(k) : k \in D}] :
              \A k \in D : f[k] \in LabelValues(k)} : D \in SUBSET AllLabelKeys}
AnnotationMaps ==
    {[k \in {} |-> <<>>]} \cup [{RestartCountKey} -> {<<"0">>, <<"1", "2">>}]

TimestampsNs == {0, 1, 499, 500, 501, 1000, 1500, 2500, 125500, 126500, 1000000500}

IfaceNames ==
    {<<"e", "t", "h", "0">>, <<"l", "o">>, <<"d", "o", "c", "k", "e", "r", "0">>,
     <<"e", "t", "h", "1">>, <<"e", "t">>, <<"v", "e", "t", "h", "1">>}
\* the j-th interface of a sandbox, with counters that tell the fields apart
Iface(name, j) ==
    [name |-> name, rx_bytes |-> 10 * j + 1, rx_errors |-> 10 * j + 2,
     tx_bytes |-> 10 * j + 3, tx_errors |-> 10 * j + 4]
IfaceSeqs ==
    {[j \in DOMAIN ns |-> Iface(ns[j], j)] :
        ns \in UNION {[1..n -> IfaceNames] : n \in 0..MaxIfaces}}

\* the pids a daemon may report: 0, live ones, and ones that are gone
UnitPids == {0} \cup LivePids \cup {90 + i : i \in Ids}
Infos == [has_info : BOOLEAN, has_pid : BOOLEAN, pid : UnitPids]

UnitMsg(type, labels, annotations, created_at, started_at) ==
    [type |-> type, id |-> 1, pod_sandbox_id |-> SandboxOf(1),
     labels |-> labels, annotations |-> annotations, running |-> TRUE,
     created_at |-> created_at, started_at |-> started_at]

UnitCall(name) ==
    [name |-> name, all_info |-> FALSE, id |-> NoId, client |-> 0, changed |-> FALSE]

InitUnit ==
    /\ daemon = [p \in Paths |-> <<>>]
    /\ pc = "unit"
    /\ clients = <<>>
    /\ probed = [p \in Paths |-> "none"]
    /\ rpcLog = <<>>
    /\ calls = <<>>
    /\ result = Running
    /\ changes = 0
    /\ feeder = NewFeeder
    /\ \/ /\ op = UnitCall("_reconstruct_name")
          /\ \E l \in LabelMaps, a \in AnnotationMaps :
                frame = [EmptyFrame EXCEPT !.cur = UnitMsg("Container", l, a, 0, 0)]
       \/ /\ op = UnitCall("time_info")
          /\ \E t \in {"Container", "ContainerStatus"}, c \in TimestampsNs, st \in TimestampsNs :
                frame = [EmptyFrame EXCEPT
                           !.cur = UnitMsg(t, LabelsOf(1, 1), AnnotationsOf(1), c, st)]
       \/ /\ op = UnitCall("networks")
          /\ \E ifs \in IfaceSeqs : frame = [EmptyFrame EXCEPT !.cur = ifs]
       \/ /\ op = UnitCall("process")
          /\ \E info \in Infos : frame = [EmptyFrame EXCEPT !.cur = info]

UnitStep(name, res) ==
    /\ pc = "unit"
    /\ op.name = name
    /\ pc' = "unit_done"
    /\ result' = res
    /\ UNCHANGED <<daemon, clients, probed, op, rpcLog, calls, frame, changes, feeder>>

\* _Client._reconstruct_name(container): the name it returns, and the maps
\* of the message as the call leaves them
UnitReconstructName ==
    UnitStep("_reconstruct_name",
             Returned([name |-> _reconstruct_name(frame.cur),
                       labels |-> MapAfter(frame.cur.labels, RequiredLabels),
                       annotations |-> MapAfter(frame.cur.annotations, {RestartCountKey})]))

\* the time_info of _create_container(container, pid)
UnitTimeInfo == UnitStep("time_info", Returned(TimeInfoOf(frame.cur)))

\* the list that get_networks builds from net_interfaces
UnitNetworks == UnitStep("networks", Returned(NetworksOf(frame.cur)))

\* the process of _create_container(container, pid), for the pid that
\* _get_container reads in the info document
UnitProcess == UnitStep("process", Returned(ProcessOf(PidFromInfo(frame.cur))))

NextUnit ==
    \/ UnitReconstructName
    \/ UnitTimeInfo
    \/ UnitNetworks
    \/ UnitProcess

SpecUnit == InitUnit /\ [][NextUnit]_vars

\* ================================================================== claims
OkStatus(p) == probed[p] \in {Generations[g] : g \in 1..Len(Generations)}
PathSeq == [p \in 1..Len(RUNTIMES) |-> p]
OkPaths == SelectSeq(PathSeq, OkStatus)
LogOf(p) == SelectSeq(rpcLog, LAMBDA e : e.path = p)
Constructing == op.name = "construct"

\* C1: construction probes the paths in the order of RUNTIMES, each of them
\* whatever became of the earlier ones; it fails with CriNotAvailableError
\* exactly when no probe succeeded, and otherwise get_runtimes() returns the
\* runtime names of the paths whose probe succeeded, one per path, in order.
C1_ConstructionHoldsTheProbedRuntimes ==
    /\ Constructing =>
        /\ \A j, k \in DOMAIN rpcLog : j < k => rpcLog[j].path <= rpcLog[k].path
        /\ \A p \in Paths :
             /\ OkStatus(p) <=> \E j \in DOMAIN rpcLog :
                                   rpcLog[j].path = p /\ rpcLog[j].status = "OK"
             /\ pc # "probe" => LogOf(p) # <<>>
    /\ pc # "probe" =>
        /\ \A p \in Paths : probed[p] # "pending"
        /\ pc = "failed" <=> \A p \in Paths : ~OkStatus(p)
        /\ pc = "failed" => result = Raised(CriNotAvailableError)
        /\ pc = "idle" /\ Constructing => result.kind = "return"
    /\ pc = "idle" /\ op.name = "get_runtimes" =>
        result = Returned([j \in 1..Len(OkPaths) |-> RuntimeNameOf(OkPaths[j])])

\* C1 witness: get_runtimes() after a construction in which the first path
\* failed both probes and the second path succeeded.
C1_Witness ==
    /\ pc = "idle"
    /\ op.name = "get_runtimes"
    /\ probed[1] = "none"
    /\ OkStatus(2)
    /\ result.value = <<RuntimeNameOf(2)>>

FallbackStatuses == {"UNIMPLEMENTED", "NOT_FOUND", "UNAVAILABLE"}

\* C2: for each path the probe issues Version with v1 first; v1alpha2 is
\* attempted if and only if the v1 attempt failed with an unimplemented or
\* not-found error or a connection failure; the probe gives the v1 client
\* when v1 succeeds, the v1alpha2 client when only v1alpha2 succeeds, and
\* nothing when both fail.
C2_FallbackOnlyWhenUnimplementedOrUnreachable ==
    Constructing =>
        \A p \in Paths :
            LET l == LogOf(p)
                done == probed[p] # "pending"
            IN  /\ l # <<>> => l[1].api = "v1" /\ l[1].method = "Version"
                /\ Len(l) <= 2
                /\ Len(l) = 2 =>
                     /\ l[2].api = "v1alpha2"
                     /\ l[1].status \in FallbackStatuses
                /\ done /\ l[1].status \in FallbackStatuses => Len(l) = 2
                /\ done /\ l[1].status = "OK" => probed[p] = "v1"
                /\ done /\ Len(l) = 2 /\ l[2].status = "OK" => probed[p] = "v1alpha2"
                /\ done /\ (\A j \in DOMAIN l : l[j].status # "OK") => probed[p] = "none"

\* ---------------------------------------------------------------- queries
Finished(name) == pc = "idle" /\ op.name = name
Ids_(cs) == [j \in DOMAIN cs |-> cs[j].id]
PathOf(ci) == clients[ci].path
\* the answer of the first ListContainers RPC that the call sent to path p
FirstList(p) ==
    LET l == SelectSeq(rpcLog, LAMBDA e : e.path = p /\ e.method = "ListContainers")
    IN  l[1].resp
RECURSIVE Flatten(_)
Flatten(ss) == IF ss = <<>> THEN <<>> ELSE Head(ss) \o Flatten(Tail(ss))

\* C3: get_container asks the held clients in probe order and returns the
\* first answer that is not absent, asking no later client; it raises
\* ContainerNotFound(id) exactly when every held client answered absent; the
\* record is the one the answering client built, whatever its position.
C3_GetContainerFirstNonAbsent ==
    op.name = "get_container" =>
        /\ Len(calls) <= Len(clients)
        /\ \A j \in DOMAIN calls :
             /\ calls[j].client = j
             /\ j < Len(calls) => calls[j].none
        /\ \A j \in DOMAIN rpcLog :
             \E k \in 1..Len(clients) :
                /\ PathOf(k) = rpcLog[j].path
                /\ k <= Len(calls) + (IF pc = "idle" /\ result.kind = "return" THEN 0 ELSE 1)
        /\ pc # "idle" => \A j \in DOMAIN calls : calls[j].none
        /\ pc = "idle" /\ result.kind = "return" =>
             /\ calls # <<>>
             /\ ~calls[Len(calls)].none
             /\ result.value = calls[Len(calls)].ret
             /\ result.value.id = op.id
             /\ result.value.runtime = RuntimeNameOf(PathOf(Len(calls)))
        /\ pc = "idle" =>
             (result = Raised(ContainerNotFound(op.id))
                <=> /\ Len(calls) = Len(clients)
                    /\ \A j \in DOMAIN calls : calls[j].none)
        /\ pc = "idle" /\ result.kind = "raise" /\ result.error.type = "ContainerNotFound"
             => result.error.id = op.id

\* C3 witness: the first client answered absent and the second one holds
\* the container.
C3_Witness ==
    /\ Finished("get_container")
    /\ result.kind = "return"
    /\ Len(calls) = 2
    /\ calls[1].none
    /\ result.value.runtime = RuntimeNameOf(2)

\* C4: list_containers returns the concatenation, in probe order, of what
\* each held client's list_containers returned, each in the order of its
\* daemon's answer, and drops nothing: an id that two runtimes report is
\* there twice.
C4_ListContainersConcatenates ==
    Finished("list_containers") /\ result.kind = "return" =>
        /\ Len(calls) = Len(clients)
        /\ \A j \in DOMAIN calls :
             /\ calls[j].client = j
             /\ \A k \in DOMAIN calls[j].ret :
                  calls[j].ret[k].runtime = RuntimeNameOf(PathOf(j))
             /\ LET kept == {calls[j].ret[k].id : k \in DOMAIN calls[j].ret}
                IN  Ids_(calls[j].ret)
                      = SelectSeq(FirstList(PathOf(j)), LAMBDA i : i \in kept)
        /\ result.value = Flatten([j \in DOMAIN calls |-> calls[j].ret])

\* C4 witness: both runtimes report the same id and the result has it twice.
C4_Witness ==
    /\ Finished("list_containers")
    /\ result.kind = "return"
    /\ \E j, k \in DOMAIN result.value :
         /\ j < k
         /\ result.value[j].id = result.value[k].id
         /\ result.value[j].runtime # result.value[k].runtime

\* C5: list_containers(all_info=False) does no network enrichment: every
\* Container has empty networks and the only RPC sent to a daemon is its one
\* ListContainers.
C5_PlainListDoesNoNetworkEnrichment ==
    Finished("list_containers") /\ ~op.all_info /\ result.kind = "return" =>
        /\ \A j \in DOMAIN result.value : result.value[j].networks = <<>>
        /\ Len(rpcLog) = Len(clients)
        /\ \A j \in DOMAIN rpcLog :
             /\ rpcLog[j].method = "ListContainers"
             /\ rpcLog[j].path = PathOf(j)

\* C6: a Container of list_containers(all_info=False) has no time_info and
\* no process, whatever the daemon knows about the container.
C6_PlainListHasNoTimeInfoNoProcess ==
    op.name = "list_containers" /\ ~op.all_info =>
        /\ \A j \in DOMAIN frame.containers :
             /\ frame.containers[j].time_info = NoTimeInfo
             /\ frame.containers[j].process = NoPid
        /\ pc = "idle" /\ result.kind = "return" =>
             \A j \in DOMAIN result.value :
                /\ ~result.value[j].time_info.present
                /\ result.value[j].time_info = NoTimeInfo
                /\ result.value[j].process = NoPid

\* C6 witness: the list holds a container that is started and has a live
\* process on its daemon.
C6_Witness ==
    /\ Finished("list_containers")
    /\ ~op.all_info
    /\ result.kind = "return"
    /\ \E j \in DOMAIN result.value :
         /\ PidOf(result.value[j].id) \in LivePids
         /\ \E p \in Paths :
              /\ result.value[j].runtime = RuntimeNameOf(p)
              /\ StartedAtOf(p, result.value[j].id) # 0

NoTransportFailure == \A j \in DOMAIN rpcLog : rpcLog[j].status \notin TransportErrors

\* C7: list_containers(all_info=True) tolerates a listed container that
\* disappears before its detail fetch completes: when no RPC fails in
\* transport the call returns, without the container that disappeared.
C7_FullListToleratesDisappearance ==
    Finished("list_containers") /\ op.all_info /\ NoTransportFailure =>
        /\ result.kind = "return"
        /\ \A j \in DOMAIN rpcLog :
             rpcLog[j].status = "NOT_FOUND" /\ rpcLog[j].method = "ContainerStatus" =>
                \A k \in DOMAIN result.value :
                    result.value[k].id = rpcLog[j].arg =>
                        result.value[k].runtime # RuntimeNameOf(rpcLog[j].path)

\* C8: a ContainerStatus RPC that fails with NOT_FOUND makes the client's
\* get_container return None, for both values of all_info: the aggregator
\* records an absent answer and goes on to the next client, or raises
\* ContainerNotFound after the last one; the NOT_FOUND is never raised.
C8_NotFoundIsAbsentNotAnError ==
    op.name = "get_container" =>
        \A j \in DOMAIN rpcLog :
            rpcLog[j].method = "ContainerStatus" /\ rpcLog[j].status = "NOT_FOUND" =>
                /\ \E k \in DOMAIN calls :
                     /\ PathOf(calls[k].client) = rpcLog[j].path
                     /\ calls[k].none
                     /\ k < Len(clients) =>
                          (pc = "rpc_status" /\ frame.ci = k + 1) \/ j < Len(rpcLog)
                     /\ k = Len(clients) =>
                          /\ pc = "idle"
                          /\ j = Len(rpcLog)
                          /\ result = Raised(ContainerNotFound(op.id))
                /\ j < Len(rpcLog) =>
                     /\ rpcLog[j + 1].method = "ContainerStatus"
                     /\ rpcLog[j + 1].path > rpcLog[j].path
                /\ result.error.type # "RpcError" \/ result.error.code # "NOT_FOUND"

\* C8 witness: with all_info the first daemon answered NOT_FOUND and the
\* aggregator went on to the second client, which holds the container.
C8_Witness ==
    /\ Finished("get_container")
    /\ op.all_info
    /\ Len(rpcLog) > 1
    /\ rpcLog[1].status = "NOT_FOUND"
    /\ rpcLog[2].path = 2
    /\ result.kind = "return"

\* C9: when PodSandboxStats fails with NOT_FOUND or reports no interface,
\* get_networks returns an empty sequence, the enclosing Container is still
\* built, with empty networks, and nothing is raised.
C9_MissingSandboxStatsGiveEmptyNetworks ==
    /\ pc = "idle" /\ rpcLog # <<>> =>
        LET last == rpcLog[Len(rpcLog)]
            none == last.status = "NOT_FOUND"
                    \/ (last.status = "OK" /\ InterfacesOfSandbox(last.arg) = <<>>)
        IN  last.method = "PodSandboxStats" /\ none =>
                /\ result.kind = "return"
                /\ op.name = "get_networks" => result.value = <<>>
                /\ op.name = "get_container" => result.value.networks = <<>>
    /\ \A j \in DOMAIN rpcLog :
         rpcLog[j].method = "PodSandboxStats" /\ rpcLog[j].status = "NOT_FOUND" =>
            ~(pc = "idle" /\ j = Len(rpcLog) /\ result.kind = "raise")

QueryNames == {"list_containers", "get_container", "get_networks"}

\* C10: in list_containers, get_container and get_networks an RPC that
\* fails with a status other than NOT_FOUND ends the call at once with that
\* very error: it is the last RPC of the call, it is not issued again, and
\* no other error or result takes its place.
C10_TransportFailurePropagatesUnretried ==
    op.name \in QueryNames =>
        /\ \A j \in DOMAIN rpcLog :
             rpcLog[j].status \in TransportErrors =>
                /\ j = Len(rpcLog)
                /\ pc = "idle"
                /\ result = Raised(RpcError(rpcLog[j].status))
        /\ pc = "idle" /\ result.kind = "raise" /\ result.error.type = "RpcError" =>
             /\ rpcLog # <<>>
             /\ rpcLog[Len(rpcLog)].status = result.error.code
             /\ result.error.code \in TransportErrors

\* C10 witness: get_networks whose PodSandboxStats ran into the deadline,
\* after its ListContainers had succeeded.
C10_Witness ==
    /\ Finished("get_networks")
    /\ Len(rpcLog) = 2
    /\ rpcLog[2].method = "PodSandboxStats"
    /\ rpcLog[2].status = "DEADLINE_EXCEEDED"
    /\ result = Raised(RpcError("DEADLINE_EXCEEDED"))

\* C11: a Version RPC of a probe that fails with a status that is neither
\* unimplemented/not-found nor a connection failure (PERMISSION_DENIED, ..)
\* propagates out of CriClient(): it is the last RPC of the construction,
\* which raises that error; no older generation is tried and the path is
\* not taken for absent.
C11_UnexpectedProbeFailurePropagates ==
    Constructing =>
        \A j \in DOMAIN rpcLog :
            rpcLog[j].status \notin FallbackStatuses \cup {"OK"} =>
                /\ j = Len(rpcLog)
                /\ pc = "failed"
                /\ result = Raised(RpcError(rpcLog[j].status))
                /\ probed[rpcLog[j].path] # "none"

UnitDone(name) == pc = "unit_done" /\ op.name = name
Underscore == <<"_">>

\* what the value of key k in the map m adds to the name
Part(m, k) == IF k \in DOMAIN m THEN m[k] ELSE <<>>

\* C12: the reconstructed name is k8s_<container>_<pod>_<namespace>_<uid>_
\* <restartCount>, in that order, for every record, a label or annotation
\* that the record lacks counting as empty; it is a function of these five
\* values only.
C12_NameIsK8sJoinOfFiveFields ==
    UnitDone("_reconstruct_name") =>
        LET l == frame.cur.labels
            a == frame.cur.annotations
        IN  /\ result.kind = "return"
            /\ result.value.name =
                  <<"k", "8", "s">> \o Underscore
                    \o Part(l, "io.kubernetes.container.name") \o Underscore
                    \o Part(l, "io.kubernetes.pod.name") \o Underscore
                    \o Part(l, "io.kubernetes.pod.namespace") \o Underscore
                    \o Part(l, "io.kubernetes.pod.uid") \o Underscore
                    \o Part(a, "io.kubernetes.container.restartCount")

\* C12 witness: a record with one more label, whose pod name and namespace
\* differ, and whose name came out.
C12_Witness ==
    /\ UnitDone("_reconstruct_name")
    /\ result.kind = "return"
    /\ ExtraLabel \in DOMAIN frame.cur.labels
    /\ \A j \in 1..Len(LabelKeys) : LabelKeys[j] \in DOMAIN frame.cur.labels
    /\ RestartCountKey \in DOMAIN frame.cur.annotations
    /\ frame.cur.labels["io.kubernetes.container.name"] = <<"a", "_", "b">>
    /\ frame.cur.labels["io.kubernetes.pod.name"] = <<"q">>
    /\ Len(result.value.name) = 17

KeyErrorLabel(k) == [type |-> "KeyError", code |-> "", id |-> NoId, key |-> k]

\* the record of container i on path p lacks a required label
Malformed(p, i) == \E j \in 1..Len(LabelKeys) : LabelKeys[j] \notin DOMAIN LabelsOf(p, i)
FirstMissing(p, i) ==
    LabelKeys[CHOOSE j \in 1..Len(LabelKeys) :
                /\ LabelKeys[j] \notin DOMAIN LabelsOf(p, i)
                /\ \A k \in 1..(j - 1) : LabelKeys[k] \in DOMAIN LabelsOf(p, i)]
\* a Container made from a record that lacks a label
FromMalformed(c) ==
    \E p \in Paths : c.runtime = RuntimeNameOf(p) /\ Malformed(p, c.id)
\* every Container the program holds or has handed out
Built ==
    {frame.containers[j] : j \in DOMAIN frame.containers}
      \cup {frame.agg[j] : j \in DOMAIN frame.agg}
      \cup (IF pc \in {"rpc_maplist", "rpc_stats"} /\ op.name # "get_networks"
              THEN {frame.cur} ELSE {})
      \cup UNION {IF calls[k].none THEN {}
                  ELSE IF op.name = "list_containers"
                    THEN {calls[k].ret[j] : j \in DOMAIN calls[k].ret}
                    ELSE {calls[k].ret} : k \in DOMAIN calls}
      \cup (IF result.kind # "return" \/ op.name \notin {"list_containers", "get_container"}
              THEN {}
            ELSE IF op.name = "list_containers"
              THEN {result.value[j] : j \in DOMAIN result.value}
              ELSE {result.value})

\* C13: a record that lacks one of the four labels is never translated: no
\* Container is made from it; a ContainerStatus answer that lacks a label
\* ends the call at once with the KeyError of the missing key; a plain
\* list_containers never returns when a daemon listed such a record, and a
\* full one returns only if the record was gone at its detail fetch; with
\* the daemons still and reachable the plain list raises that KeyError.
C13_MissingLabelFailsTheWholeCall ==
    /\ \A c \in Built : ~FromMalformed(c)
    /\ \A j \in DOMAIN rpcLog :
         /\ rpcLog[j].method = "ContainerStatus"
         /\ rpcLog[j].status = "OK"
         /\ Malformed(rpcLog[j].path, rpcLog[j].arg)
         => /\ j = Len(rpcLog)
            /\ pc = "idle"
            /\ result = Raised(KeyErrorLabel(FirstMissing(rpcLog[j].path, rpcLog[j].arg)))
    /\ Finished("list_containers") =>
         \A k \in DOMAIN clients :
            LogOf(PathOf(k)) # <<>> /\ LogOf(PathOf(k))[1].status = "OK" =>
               \A j \in DOMAIN FirstList(PathOf(k)) :
                  LET i == FirstList(PathOf(k))[j]
                  IN  Malformed(PathOf(k), i) =>
                        /\ result.kind = "return" =>
                             /\ op.all_info
                             /\ \E e \in DOMAIN rpcLog :
                                  /\ rpcLog[e].path = PathOf(k)
                                  /\ rpcLog[e].method = "ContainerStatus"
                                  /\ rpcLog[e].arg = i
                                  /\ rpcLog[e].status = "NOT_FOUND"
                        /\ ~op.all_info /\ NoTransportFailure /\ changes = 0 =>
                             result = Raised(KeyErrorLabel(FirstMissing(PathOf(k), i)))

Abs(x) == IF x < 0 THEN -x ELSE x

\* C14: when a Container has a TimeInfo, create_time is there; start_time is
\* absent exactly when started_at is 0, and for any other started_at it is
\* the time of started_at, to the microsecond.
C14_StartTimeAbsentIffStartedAtZero ==
    UnitDone("time_info") /\ result.value.present =>
        /\ result.value.create_time # NoTime
        /\ Abs(1000 * result.value.create_time - frame.cur.created_at) <= 500
        /\ result.value.start_time = NoTime <=> frame.cur.started_at = 0
        /\ frame.cur.started_at # 0 =>
             /\ result.value.start_time >= 0
             /\ Abs(1000 * result.value.start_time - frame.cur.started_at) <= 500

\* C14 witness: a status whose started_at is not 0 and whose start_time is
\* there; started_at is half way between two microseconds and the float
\* arithmetic gives the lower one.
C14_Witness ==
    /\ UnitDone("time_info")
    /\ result.value.present
    /\ frame.cur.started_at = 125500
    /\ result.value.start_time = 125

RECURSIVE IsSubSeqOf(_, _)
\* s is t with some elements left out
IsSubSeqOf(s, t) ==
    IF s = <<>> THEN TRUE
    ELSE IF t = <<>> THEN FALSE
    ELSE IF Head(s) = Head(t) THEN IsSubSeqOf(Tail(s), Tail(t))
    ELSE IsSubSeqOf(s, Tail(t))

IsEth(name) == Len(name) >= 3 /\ name[1] = "e" /\ name[2] = "t" /\ name[3] = "h"

\* C15: get_networks gives the interfaces whose name starts with "eth", all
\* of them and no other, in the order the sandbox reports them, with their
\* five fields as reported.
C15_NetworksAreTheEthInterfaces ==
    UnitDone("networks") =>
        /\ result.kind = "return"
        /\ IsSubSeqOf(result.value, frame.cur)
        /\ \A j \in DOMAIN result.value : IsEth(result.value[j].name)
        /\ Len(result.value) = Cardinality({j \in DOMAIN frame.cur : IsEth(frame.cur[j].name)})

\* C15 witness: eth0, lo, eth1 reported and eth0, eth1 returned.
C15_Witness ==
    /\ UnitDone("networks")
    /\ Len(frame.cur) = 3
    /\ frame.cur[2].name = <<"l", "o">>
    /\ Len(result.value) = 2
    /\ result.value[1] = Iface(<<"e", "t", "h", "0">>, 1)
    /\ result.value[2] = Iface(<<"e", "t", "h", "1">>, 3)

\* path 1 (B) answered no probe, path 2 (A) answered the v1alpha2 probe only
ScenarioProbed == probed = [p \in Paths |-> IF p = 2 THEN "v1alpha2" ELSE "none"]
ScenarioClients ==
    << [path |-> 2, api |-> "v1alpha2", runtime_name |-> RuntimeNameOf(2)] >>

\* C16: when the daemon at the first path is unreachable and the daemon at
\* the second rejects v1 and accepts v1alpha2, the aggregator holds one
\* client, v1alpha2, for the second path, and get_runtimes() returns its one
\* name; when that daemon reports one running container with its labels and
\* started_at = 0, list_containers(all_info=True) returns one Container,
\* running, with a time_info whose start_time is absent.
C16_EndToEndScenario ==
    /\ Constructing /\ pc = "idle"
         /\ [j \in DOMAIN rpcLog |-> rpcLog[j].status]
              = <<"UNAVAILABLE", "UNAVAILABLE", "UNIMPLEMENTED", "OK">>
       => ScenarioProbed
    /\ ScenarioProbed =>
         /\ pc # "failed"
         /\ clients = ScenarioClients
         /\ op.name = "get_runtimes" => result = Returned(<<RuntimeNameOf(2)>>)
         /\ Finished("list_containers") /\ op.all_info /\ NoTransportFailure
              /\ changes = 0 /\ daemon[2] = <<1>>
            => /\ result.kind = "return"
               /\ Len(result.value) = 1
               /\ result.value[1].runtime = RuntimeNameOf(2)
               /\ result.value[1].id = 1
               /\ result.value[1].running
               /\ result.value[1].time_info.present
               /\ result.value[1].time_info.create_time # NoTime
               /\ result.value[1].time_info.start_time = NoTime

\* C16 witness: the list of the scenario, returned.
C16_Witness ==
    /\ ScenarioProbed
    /\ Finished("list_containers") /\ op.all_info /\ NoTransportFailure
    /\ changes = 0 /\ daemon[2] = <<1>>
    /\ StartedAtOf(2, 1) = 0 /\ RunningOf(1)
    /\ Len(result.value) = 1
    /\ result.value[1].time_info.start_time = NoTime

ReadRpcs == {"Version", "ListContainers", "ContainerStatus", "PodSandboxStats"}
\* a step of the program (the daemons' own steps leave these alone)
ProgramStep == pc' # pc \/ op' # op \/ rpcLog' # rpcLog \/ result' # result

\* C17: every RPC that construction and the calls issue is Version,
\* ListContainers, ContainerStatus or PodSandboxStats, and no step of the
\* program changes the containers and sandboxes of a daemon.
C17_ReadOnlyTowardsTheDaemons ==
    /\ [](\A j \in DOMAIN rpcLog : rpcLog[j].method \in ReadRpcs)
    /\ [][ProgramStep => daemon' = daemon]_vars

\* C17 witness: a full list that issued the three query RPCs against a
\* daemon that holds pods.
C17_Witness ==
    /\ Finished("list_containers")
    /\ result.kind = "return"
    /\ {rpcLog[j].method : j \in DOMAIN rpcLog}
         = {"ListContainers", "ContainerStatus", "PodSandboxStats"}
    /\ PodCount(daemon) = MaxPods

\* the ids that the held clients' daemons hold now, in client order
DaemonIds == Flatten([k \in DOMAIN clients |-> daemon[PathOf(k)]])
CallMethod == IF op.name = "list_containers" THEN "ListContainers" ELSE "ContainerStatus"

\* C18: a list_containers or get_container call answers from RPCs of its
\* own: each client that answered was sent the call's RPC, and when the
\* daemons are still during the call the answer is what the daemons hold
\* then, whatever an earlier call returned.
C18_NoCachingAcrossCalls ==
    /\ Finished("list_containers") \/ Finished("get_container") =>
         /\ rpcLog # <<>>
         /\ \A k \in DOMAIN calls :
              \E j \in DOMAIN rpcLog :
                 /\ rpcLog[j].path = PathOf(calls[k].client)
                 /\ rpcLog[j].method = CallMethod
    /\ Finished("list_containers") /\ changes = 0 /\ result.kind = "return" =>
         Ids_(result.value) = DaemonIds
    /\ Finished("get_container") /\ changes = 0 /\ NoTransportFailure =>
         /\ result.kind = "return" =>
              /\ result.value.id = op.id
              /\ \E k \in DOMAIN clients :
                   /\ HasContainer(PathOf(k), op.id)
                   /\ result.value.runtime = RuntimeNameOf(PathOf(k))
         /\ result = Raised(ContainerNotFound(op.id)) <=>
              \A k \in DOMAIN clients : ~HasContainer(PathOf(k), op.id)

\* C18 witness: a list that follows a call during which a daemon changed,
\* and that returns what the daemons hold.
C18_Witness ==
    /\ Finished("list_containers")
    /\ op.changed
    /\ changes = 0
    /\ result.kind = "return"
    /\ Len(result.value) >= 1
    /\ Ids_(result.value) = DaemonIds

\* C19 as the specification states it: every RPC of a client goes over the
\* channel opened at probe time, a client has at most one channel open, and
\* no channel is used by two clients.
C19_OneChannelForTheClientsLifetime ==
    /\ \A j \in DOMAIN rpcLog : rpcLog[j].chan = ProbeChannel
    /\ Len(frame.open) <= 1
    /\ \A j, k \in DOMAIN rpcLog :
         rpcLog[j].chan = rpcLog[k].chan /\ rpcLog[j].chan # ProbeChannel =>
            rpcLog[j].path = rpcLog[k].path

\* C19, amended: a channel lives as long as one `with self.stub()` block.
\* The probe's channel carries the Version RPC only; every call opens a
\* channel for each client it queries, and get_networks called by
\* _create_container opens a second one while the first is open; at most two
\* are open; all are closed when the call ends, raising or not; no channel
\* is used by two clients.
C19_OneChannelPerStubBlock ==
    /\ Constructing =>
         /\ frame.open = <<>>
         /\ \A j \in DOMAIN rpcLog : rpcLog[j].chan = ProbeChannel
    /\ op.name \in QueryNames =>
         /\ \A j \in DOMAIN rpcLog : rpcLog[j].chan # ProbeChannel
         /\ pc = "idle" => frame.open = <<>>
         /\ pc \in {"rpc_list", "rpc_status"} => Len(frame.open) = 1
         /\ pc \in {"rpc_maplist", "rpc_stats"} =>
              IF op.name = "get_networks"
                THEN Len(frame.open) = 1
                ELSE Len(frame.open) = 2 /\ frame.open[1] # frame.open[2]
         /\ \A j, k \in DOMAIN rpcLog :
              rpcLog[j].chan = rpcLog[k].chan => rpcLog[j].path = rpcLog[k].path
         /\ \A j, k \in DOMAIN rpcLog :
              /\ rpcLog[j].method = "PodSandboxStats"
              /\ rpcLog[k].method = "ContainerStatus"
              => rpcLog[j].chan # rpcLog[k].chan

\* C19 witness: the get_networks of the second container of a list, on the
\* third channel of the call, with the list's own channel open.
C19_Witness ==
    /\ op.name = "list_containers"
    /\ pc = "rpc_stats"
    /\ frame.open = <<1, 3>>
    /\ rpcLog[Len(rpcLog)].chan = 3

\* the clients that the probes of construction produced
ProbedClients ==
    [j \in DOMAIN OkPaths |->
        [path |-> OkPaths[j], api |-> probed[OkPaths[j]],
         runtime_name |-> RuntimeNameOf(OkPaths[j])]]

\* C20: once construction is over no call changes the sequence of held
\* clients or a client's generation, path or name, whether it returns or
\* raises; get_runtimes() returns the names of the clients that the probes
\* produced, and no call issues a Version RPC.
C20_ClientsFixedAfterConstruction ==
    /\ [](~Constructing =>
            /\ clients = ProbedClients
            /\ \A j \in DOMAIN rpcLog : rpcLog[j].method # "Version"
            /\ op.name = "get_runtimes" =>
                 result = Returned([j \in DOMAIN ProbedClients |->
                                       ProbedClients[j].runtime_name]))
    /\ [][pc # "probe" => clients' = clients /\ probed' = probed]_vars

\* C20 witness: a list that the first daemon failed in transport, with both
\* clients still held.
C20_Witness ==
    /\ Finished("list_containers")
    /\ result = Raised(RpcError("UNAVAILABLE"))
    /\ rpcLog[Len(rpcLog)].path = 1
    /\ Len(clients) = 2
    /\ clients = ProbedClients

\* the ids of a ListContainers answer that the answer maps to sandbox sb
MappedTo(resp, sb) == {resp[j] : j \in {k \in DOMAIN resp : SandboxOf(resp[k]) = sb}}

\* C21: get_networks(container_id) sends one ListContainers and then, when
\* that answer maps container_id, one PodSandboxStats for the sandbox that
\* the answer gives for container_id, and nothing else; it returns only
\* after both. Wherever get_networks runs, a PodSandboxStats follows the
\* ListContainers of its own lookup at once, on the same channel, and asks
\* for a sandbox of that answer.
C21_NetworksLookupIsListThenStats ==
    /\ op.name = "get_networks" =>
         /\ Len(rpcLog) <= 2
         /\ rpcLog # <<>> => rpcLog[1].method = "ListContainers"
         /\ Len(rpcLog) = 2 =>
              /\ rpcLog[2].method = "PodSandboxStats"
              /\ rpcLog[1].status = "OK"
              /\ MappedTo(rpcLog[1].resp, rpcLog[2].arg) = {op.id}
         /\ pc = "idle" /\ result.kind = "return" => Len(rpcLog) = 2
         /\ pc = "idle" /\ Len(rpcLog) = 1 =>
              \/ rpcLog[1].status # "OK"
              \/ \A j \in DOMAIN rpcLog[1].resp : rpcLog[1].resp[j] # op.id
    /\ \A j \in DOMAIN rpcLog :
         rpcLog[j].method = "PodSandboxStats" =>
            /\ j > 1
            /\ rpcLog[j - 1].method = "ListContainers"
            /\ rpcLog[j - 1].status = "OK"
            /\ rpcLog[j - 1].path = rpcLog[j].path
            /\ rpcLog[j - 1].chan = rpcLog[j].chan
            /\ MappedTo(rpcLog[j - 1].resp, rpcLog[j].arg) # {}
            /\ op.name # "get_networks" =>
                 \E k \in 1..(j - 2) :
                    /\ rpcLog[k].path = rpcLog[j].path
                    /\ rpcLog[k].method \in {"ListContainers", "ContainerStatus"}
                    /\ rpcLog[k].chan # rpcLog[j].chan
                    /\ IF op.all_info \/ op.name = "get_container"
                         THEN /\ k = j - 2
                              /\ rpcLog[k].method = "ContainerStatus"
                              /\ SandboxOf(rpcLog[k].arg) = rpcLog[j].arg
                         ELSE rpcLog[j].arg \in {SandboxOf(rpcLog[k].resp[i]) :
                                                    i \in DOMAIN rpcLog[k].resp}

\* C21 witness: get_networks of the second of two listed containers, done.
C21_Witness ==
    /\ Finished("get_networks")
    /\ result.kind = "return"
    /\ Len(rpcLog[1].resp) = 2
    /\ rpcLog[1].resp[2] = op.id
    /\ rpcLog[2].arg = SandboxOf(op.id)
    /\ rpcLog[2].status = "OK"

\* C22: the Container has a process handle exactly when the status response
\* has the "info" document, the document has a pid, the pid is not 0 and
\* the process of that pid is found; in every other case the Container is
\* built without a handle and no error is raised.
C22_ProcessIffNonZeroPidResolves ==
    UnitDone("process") =>
        /\ result.kind = "return"
        /\ result.value # NoPid <=>
             /\ frame.cur.has_info
             /\ frame.cur.has_pid
             /\ frame.cur.pid # 0
             /\ frame.cur.pid \in LivePids
        /\ result.value # NoPid => result.value = frame.cur.pid

\* C22 witness: a verbose response whose pid is of a process that is gone,
\* and a Container without a handle.
C22_Witness ==
    /\ UnitDone("process")
    /\ frame.cur.has_info /\ frame.cur.has_pid
    /\ frame.cur.pid \notin LivePids \cup {0}
    /\ result.kind = "return"
    /\ result.value = NoPid

Resting == {"idle", "failed"}

\* C23: every RPC has a bounded deadline, so construction and every call
\* that has begun eventually returns or raises, also when a daemon accepts
\* the connection and never answers.
C23_EveryCallEventuallyEnds == (pc \notin Resting) ~> (pc \in Resting)

\* C24: a Container has a time_info only when the call had all_info=True:
\* the Containers of list_containers(all_info=False) and of
\* get_container(id, all_info=False) carry none.
C24_TimeInfoOnlyWithAllInfo ==
    op.name \in {"list_containers", "get_container"} =>
        \A c \in Built : c.time_info.present => op.all_info

Aggregate == op.name \in {"list_containers", "get_container"}
\* the position among the held clients of the client for path p
ClientAt(p) == CHOOSE k \in DOMAIN clients : PathOf(k) = p

\* C25: list_containers and get_container ask the held clients one at a
\* time, in the order they are held: a client is sent an RPC only once every
\* client before it has answered. When the query of client k raises, the
\* call raises at once: it is the last RPC, no client after k was asked, and
\* the call gives an error and none of the answers of the clients before k.
C25_AggregationIsSequentialAllOrNothing ==
    Aggregate =>
        /\ Len(calls) <= Len(clients)
        /\ \A j \in DOMAIN calls : calls[j].client = j
        /\ \A j \in DOMAIN rpcLog :
             /\ \E k \in DOMAIN clients : PathOf(k) = rpcLog[j].path
             /\ ClientAt(rpcLog[j].path) <= Len(calls) + 1
             /\ \A i \in 1..(j - 1) :
                  ClientAt(rpcLog[i].path) <= ClientAt(rpcLog[j].path)
        /\ pc # "idle" =>
             /\ result = Running
             /\ Len(calls) < Len(clients)
             /\ frame.ci = Len(calls) + 1
        /\ pc = "idle" /\ result.kind = "raise"
             /\ result.error.type # "ContainerNotFound" =>
               /\ Len(calls) < Len(clients)
               /\ rpcLog # <<>>
               /\ ClientAt(rpcLog[Len(rpcLog)].path) = Len(calls) + 1
               /\ \A j \in DOMAIN rpcLog :
                    ClientAt(rpcLog[j].path) <= Len(calls) + 1
               /\ result.value = <<>>
        /\ \A j \in DOMAIN rpcLog :
             rpcLog[j].status \in TransportErrors =>
                /\ j = Len(rpcLog)
                /\ pc = "idle"
                /\ result.kind = "raise"
        /\ pc = "idle" /\ result.kind = "return" /\ op.name = "list_containers" =>
             Len(calls) = Len(clients)

\* C25 witness: the first of two clients gave its containers, the query of
\* the second raised, and the list raised.
C25_Witness ==
    /\ Finished("list_containers")
    /\ Len(clients) = 2
    /\ Len(calls) = 1
    /\ calls[1].ret # <<>>
    /\ result.kind = "raise"
    /\ result.value = <<>>
    /\ rpcLog[Len(rpcLog)].path = PathOf(2)

Collecting == op.name = "collect"
ConfigsPath == "/nodes/{node_id}/configs"
\* the request succeeded: a response came, it is ok, and the caller made
\* the response of its kind of the body; otherwise it failed
Succeeded(rq) == rq.response.via = "response" /\ rq.response.ok /\ rq.outcome = "ok"

====
